---- MODULE Spec2Model ----
(***************************************************************************)
(* streak-forge: the statistics functions of api/index.ts (and the older   *)
(* api/index.js variants) and the request handler around them.             *)
(*                                                                         *)
(* Strings are sequences of one-character strings, so that startsWith,     *)
(* slice, split and Number act on the text of a date as the code does.     *)
(* calculateAverageWeeklyCurrentYear returns a number with one decimal; it *)
(* is represented by that number times ten (25.0 is 250).                  *)
(***************************************************************************)
EXTENDS Integers, Sequences, FiniteSets, TLC

VARIABLES
    rawData,   \* GitHubData: response.data.data, the calendar the functions read
    clock,     \* index of the current instant in Instants (what new Date() reads)
    out,       \* the last value an engine function returned
    pc,        \* position of the handler
    req,       \* the request: its user query parameter
    locals,    \* the handler's computed constants (currentStreak, ...)
    res        \* the response: status, body kind, headers

vars == <<rawData, clock, out, pc, req, locals, res>>

\* ------------------------------------------------------------------ bounds
MaxCount == 2      \* greatest contributionCount of an enumerated day
MaxDays == 5       \* greatest number of days of an enumerated calendar
WeekLen == 2       \* contributionDays per week in the enumerated replies
MaxReplyDays == 2  \* greatest number of days of a calendar the handler is sent
MaxLongDays == 30  \* greatest number of days of a long calendar
MaxLongCount == 5  \* greatest contributionCount in a long calendar

\* ------------------------------------------------------------- JS strings
DigitChars == <<"0", "1", "2", "3", "4", "5", "6", "7", "8", "9">>

IsDigit(c) == \E i \in 1..10 : DigitChars[i] = c

DigitValue(c) == (CHOOSE i \in 1..10 : DigitChars[i] = c) - 1

RECURSIVE NumToStr(_)
\* Number.prototype.toString for a non-negative integer
NumToStr(n) ==
    IF n < 10 THEN <<DigitChars[n + 1]>>
    ELSE NumToStr(n \div 10) \o <<DigitChars[(n % 10) + 1]>>

\* String.prototype.startsWith
StartsWith(s, prefix) ==
    /\ Len(prefix) <= Len(s)
    /\ SubSeq(s, 1, Len(prefix)) = prefix

\* String.prototype.slice(from, to) for 0 <= from <= to
Slice(s, from, to) ==
    SubSeq(s, from + 1, IF to < Len(s) THEN to ELSE Len(s))

RECURSIVE SplitFrom(_, _, _)
SplitFrom(s, sep, cur) ==
    IF s = <<>> THEN <<cur>>
    ELSE IF Head(s) = sep THEN <<cur>> \o SplitFrom(Tail(s), sep, <<>>)
    ELSE SplitFrom(Tail(s), sep, Append(cur, Head(s)))

\* String.prototype.split on a one-character separator
Split(s, sep) == SplitFrom(s, sep, <<>>)

RECURSIVE DigitsValue(_, _)
DigitsValue(s, acc) ==
    IF s = <<>> THEN acc ELSE DigitsValue(Tail(s), 10 * acc + DigitValue(Head(s)))

\* Number(str) is a number (not NaN): str is a string of decimal digits
IsNumeric(s) == \A i \in 1..Len(s) : IsDigit(s[i])

\* Number(str) for a string of decimal digits
Number(s) == DigitsValue(s, 0)

Str3(a, b, c) == <<a, b, c>>

NA == Str3("N", "/", "A")

\* ------------------------------------------------------------------ dates
Pad2(n) == IF n < 10 THEN <<"0">> \o NumToStr(n) ELSE NumToStr(n)

\* the ISO text YYYY-MM-DD of a date, as the remote source sends it
ISO(y, m, d) == NumToStr(y) \o <<"-">> \o Pad2(m) \o <<"-">> \o Pad2(d)

\* The dates of the enumerated calendars, ascending: two years, four months.
SampleDates ==
    << ISO(2023, 12, 1), ISO(2023, 12, 31), ISO(2024, 1, 1), ISO(2024, 1, 2),
       ISO(2024, 2, 1), ISO(2024, 2, 29), ISO(2024, 3, 1), ISO(2025, 1, 1) >>

NumDates == IF MaxDays < Len(SampleDates) THEN MaxDays ELSE Len(SampleDates)

\* The instants new Date() can read, in time order, of a process whose local
\* time zone is ahead of UTC: toISOString() gives the UTC date, getFullYear()
\* the local year.
Instants ==
    << [utc |-> ISO(2023, 12, 31), localYear |-> 2023],
       [utc |-> ISO(2023, 12, 31), localYear |-> 2024],
       [utc |-> ISO(2024, 1, 1), localYear |-> 2024] >>

\* new Date().toISOString().split("T")[0]
TodayISO(t) == Instants[t].utc

\* new Date().getFullYear()
GetFullYear(t) == Instants[t].localYear

\* ------------------------------------------------------- the remote reply
\* A ContributionDay (interface ContributionDay)
Day(date, count) == [contributionCount |-> count, date |-> date]

RECURSIVE SumCounts(_)
SumCounts(days) ==
    IF days = <<>> THEN 0 ELSE Head(days).contributionCount + SumCounts(Tail(days))

RECURSIVE ToWeeks(_)
\* the remote source groups the days of the calendar into weeks
ToWeeks(days) ==
    IF days = <<>> THEN <<>>
    ELSE IF Len(days) <= WeekLen THEN <<[contributionDays |-> days]>>
    ELSE <<[contributionDays |-> SubSeq(days, 1, WeekLen)]>>
         \o ToWeeks(SubSeq(days, WeekLen + 1, Len(days)))

\* GitHubData with user: null
NoUserData == [user |-> [null |-> TRUE]]

\* GitHubData of a known user whose calendar holds these days
UserData(days) ==
    [user |-> [null |-> FALSE,
               totalContributions |-> SumCounts(days),
               weeks |-> ToWeeks(days)]]

\* --------------------------------------------------------------- helpers
RECURSIVE FlatMapDays(_)
FlatMapDays(weeks) ==
    IF weeks = <<>> THEN <<>>
    ELSE Head(weeks).contributionDays \o FlatMapDays(Tail(weeks))

flattenDays(data) ==
    IF data.user.null THEN <<>> ELSE FlatMapDays(data.user.weeks)

\* ------------------------------------------------- how a call completes
\* the call returns v
Return(v) == [threw |-> FALSE, val |-> v]

\* the call throws e
Throw(e) == [threw |-> TRUE, val |-> e]

\* "Cannot read properties of null"
TypeError == "TypeError"

\* The read of the weeks of the reply. With the optional chain of flattenDays
\* (data.user?.contributionsCollection ... || []) a null user gives []; the
\* plain chain of index.js (data.user.contributionsCollection ...) throws.
ReadWeeks(data, optional) ==
    IF data.user.null
    THEN IF optional THEN Return(<<>>) ELSE Throw(TypeError)
    ELSE Return(data.user.weeks)

\* a function that reads the weeks first and then computes v without a throw
CompletionOf(weeks, v) == IF weeks.threw THEN weeks ELSE Return(v)

\* Math.max
MathMax(a, b) == IF a >= b THEN a ELSE b

\* Math.ceil of the quotient num / den, den > 0, num >= 0
MathCeil(num, den) == (num + den - 1) \div den

\* mutant: Math.floor for Math.round
MathRound_Floor(num, den) == num \div den

\* Math.round of the quotient num / den, den > 0: floor(x + 0.5). The double
\* avgPerWeek * 10 rounds as the exact quotient does for every sum below
\* 200000 and every number of weeks of a year (1..53).
MathRound(num, den) == (2 * num + den) \div (2 * den)

\* ------------------------------------------------------------ stats logic
RECURSIVE StreakLoop(_, _, _, _)
\* the for loop of calculateCurrentStreak, i counted from 1 (the loops of
\* calculateStreak in index.js, lines 38-50 and 245-260, are the same)
StreakLoop(days, i, today, currentStreak) ==
    IF i < 1 THEN currentStreak
    ELSE IF days[i].date = today /\ days[i].contributionCount = 0
         THEN StreakLoop(days, i - 1, today, currentStreak)
    ELSE IF days[i].contributionCount > 0
         THEN StreakLoop(days, i - 1, today, currentStreak + 1)
    ELSE currentStreak

RECURSIVE PlainStreakLoop(_, _, _)
\* the loop without the skip of today: every zero-count entry ends it
PlainStreakLoop(days, i, currentStreak) ==
    IF i < 1 THEN currentStreak
    ELSE IF days[i].contributionCount > 0
         THEN PlainStreakLoop(days, i - 1, currentStreak + 1)
    ELSE currentStreak

\* mutant: today is skipped only at the last index of the calendar
calculateCurrentStreak_SkipLastOnly(data, t) ==
    LET days == flattenDays(data)
        today == TodayISO(t)
        n == Len(days)
        skip == n > 0 /\ days[n].date = today /\ days[n].contributionCount = 0
    IN  PlainStreakLoop(days, IF skip THEN n - 1 ELSE n, 0)

\* mutant: the skip of today is missing
calculateCurrentStreak_NoSkip(data, t) ==
    LET days == flattenDays(data)
    IN  PlainStreakLoop(days, Len(days), 0)

calculateCurrentStreak(data, t) ==
    LET days == flattenDays(data)
        today == TodayISO(t)
    IN  StreakLoop(days, Len(days), today, 0)

RECURSIVE BestDayLoop(_, _)
BestDayLoop(days, best) ==
    IF days = <<>> THEN best
    ELSE IF Head(days).contributionCount > best.count
         THEN BestDayLoop(Tail(days),
                          [date |-> Head(days).date, count |-> Head(days).contributionCount])
    ELSE BestDayLoop(Tail(days), best)

RECURSIVE LastBestDayLoop(_, _)
LastBestDayLoop(days, best) ==
    IF days = <<>> THEN best
    ELSE IF Head(days).contributionCount >= best.count
         THEN LastBestDayLoop(Tail(days),
                  [date |-> Head(days).date, count |-> Head(days).contributionCount])
    ELSE LastBestDayLoop(Tail(days), best)

\* mutant: best.count <= 0 for best.count < 0, a day of count 0 is no result
calculateMostProductiveDayFull_ZeroIsNone(data) ==
    LET days == flattenDays(data)
        best == BestDayLoop(days, [date |-> <<>>, count |-> -1])
    IN  IF Len(days) = 0 THEN [date |-> NA, count |-> 0]
        ELSE IF best.count <= 0 THEN [date |-> NA, count |-> 0]
        ELSE best

\* mutant: >= for >, the last of the greatest days wins
calculateMostProductiveDayFull_LastWins(data) ==
    LET days == flattenDays(data)
        best == LastBestDayLoop(days, [date |-> <<>>, count |-> -1])
    IN  IF Len(days) = 0 THEN [date |-> NA, count |-> 0]
        ELSE IF best.count < 0 THEN [date |-> NA, count |-> 0]
        ELSE best

calculateMostProductiveDayFull(data) ==
    LET days == flattenDays(data)
        best == BestDayLoop(days, [date |-> <<>>, count |-> -1])
    IN  IF Len(days) = 0 THEN [date |-> NA, count |-> 0]
        ELSE IF best.count < 0 THEN [date |-> NA, count |-> 0]
        ELSE best

\* days.filter((d) => d.date.startsWith(year))
FilterYear(days, year) ==
    LET InYear(d) == StartsWith(d.date, year)
    IN  SelectSeq(days, InYear)

\* mutant: Math.round(avgPerWeek * 10 / 10), the average is rounded to an integer
calculateAverageWeeklyCurrentYear_RoundsToInteger(data, t) ==
    LET days == flattenDays(data)
        year == NumToStr(GetFullYear(t))
        yearDays == FilterYear(days, year)
        sum == SumCounts(yearDays)
        weeks == MathMax(1, MathCeil(Len(yearDays), 7))
    IN  IF Len(yearDays) = 0 THEN 0
        ELSE 10 * MathRound(sum, weeks)

\* the result in tenths: Math.round(avgPerWeek * 10) / 10
calculateAverageWeeklyCurrentYear(data, t) ==
    LET days == flattenDays(data)
        year == NumToStr(GetFullYear(t))
        yearDays == FilterYear(days, year)
        sum == SumCounts(yearDays)
        weeks == MathMax(1, MathCeil(Len(yearDays), 7))
    IN  IF Len(yearDays) = 0 THEN 0
        ELSE MathRound(sum * 10, weeks)

RECURSIVE MaxStreakLoop(_, _, _)
MaxStreakLoop(list, max, temp) ==
    IF list = <<>> THEN max
    ELSE IF Head(list).contributionCount > 0
         THEN MaxStreakLoop(Tail(list), MathMax(max, temp + 1), temp + 1)
    ELSE MaxStreakLoop(Tail(list), max, 0)

RECURSIVE LateMaxStreakLoop(_, _, _)
LateMaxStreakLoop(list, max, temp) ==
    IF list = <<>> THEN max
    ELSE IF Head(list).contributionCount > 0
         THEN LateMaxStreakLoop(Tail(list), MathMax(max, temp), temp + 1)
    ELSE LateMaxStreakLoop(Tail(list), max, 0)

\* mutant: max = Math.max(max, temp) before temp++, the day itself is not counted
calculateMaxYearStreak_MaxBeforeIncrement(data, t) ==
    LET days == flattenDays(data)
        year == NumToStr(GetFullYear(t))
        list == FilterYear(days, year)
    IN  LateMaxStreakLoop(list, 0, 0)

\* mutant: the filter on the year is missing
calculateMaxYearStreak_NoFilter(data, t) ==
    LET days == flattenDays(data)
    IN  MaxStreakLoop(days, 0, 0)

calculateMaxYearStreak(data, t) ==
    LET days == flattenDays(data)
        year == NumToStr(GetFullYear(t))
        list == FilterYear(days, year)
    IN  MaxStreakLoop(list, 0, 0)

\* calculateStreak of index.js: the weeks are read without the optional
\* chain, then the same loop as calculateCurrentStreak
js_calculateStreak(data, t) ==
    LET weeks == ReadWeeks(data, FALSE)
        days == FlatMapDays(weeks.val)
        today == TodayISO(t)
    IN  CompletionOf(weeks, StreakLoop(days, Len(days), today, 0))

\* calculateMaxYearStreak of index.js: d.date.startsWith(year) turns the
\* number year into its text
js_calculateMaxYearStreak(data, t) ==
    LET weeks == ReadWeeks(data, FALSE)
        days == FlatMapDays(weeks.val)
        year == NumToStr(GetFullYear(t))
    IN  CompletionOf(weeks, MaxStreakLoop(FilterYear(days, year), 0, 0))

\* A Map is the sequence of its [k, v] entries in insertion order.
MapHas(map, k) == \E i \in 1..Len(map) : map[i].k = k

\* map.get(k) || 0
MapGetOr0(map, k) ==
    IF MapHas(map, k) THEN map[CHOOSE i \in 1..Len(map) : map[i].k = k].v ELSE 0

\* map.set(k, v): an existing key keeps its place
MapSet(map, k, v) ==
    IF MapHas(map, k)
    THEN [i \in 1..Len(map) |-> IF map[i].k = k THEN [k |-> k, v |-> v] ELSE map[i]]
    ELSE Append(map, [k |-> k, v |-> v])

RECURSIVE MonthMapLoop(_, _)
MonthMapLoop(days, map) ==
    IF days = <<>> THEN map
    ELSE LET monthKey == Slice(Head(days).date, 0, 7)
         IN  MonthMapLoop(Tail(days),
                 MapSet(map, monthKey,
                        MapGetOr0(map, monthKey) + Head(days).contributionCount))

RECURSIVE BestMonthLoop(_, _, _)
BestMonthLoop(map, bestKey, bestVal) ==
    IF map = <<>> THEN [key |-> bestKey, val |-> bestVal]
    ELSE IF Head(map).v > bestVal
         THEN BestMonthLoop(Tail(map), Head(map).k, Head(map).v)
    ELSE BestMonthLoop(Tail(map), bestKey, bestVal)

monthNames ==
    << Str3("J", "a", "n"), Str3("F", "e", "b"), Str3("M", "a", "r"),
       Str3("A", "p", "r"), Str3("M", "a", "y"), Str3("J", "u", "n"),
       Str3("J", "u", "l"), Str3("A", "u", "g"), Str3("S", "e", "p"),
       Str3("O", "c", "t"), Str3("N", "o", "v"), Str3("D", "e", "c") >>

UndefinedText == <<"u", "n", "d", "e", "f", "i", "n", "e", "d">>

\* `${arr[i]}` for a zero-based index i: the element, or the text undefined
ElemText(arr, i) ==
    IF i + 1 \in 1..Len(arr) THEN arr[i + 1] ELSE UndefinedText

RECURSIVE OverwriteMonthMapLoop(_, _)
OverwriteMonthMapLoop(days, map) ==
    IF days = <<>> THEN map
    ELSE OverwriteMonthMapLoop(Tail(days),
             MapSet(map, Slice(Head(days).date, 0, 7), Head(days).contributionCount))

\* the return statement of calculateHighestCommittedMonth
MonthResult(best) ==
    LET parts == Split(best.key, "-")
        year == ElemText(parts, 0)
        month == ElemText(parts, 1)
        name == IF IsNumeric(month) THEN ElemText(monthNames, Number(month) - 1)
                ELSE UndefinedText
    IN  [label |-> name \o <<" ">> \o year, count |-> best.val]

\* mutant: map.set(monthKey, d.contributionCount), the month's sum is lost
calculateHighestCommittedMonth_Overwrite(data) ==
    LET days == flattenDays(data)
        map == OverwriteMonthMapLoop(days, <<>>)
    IN  IF Len(map) = 0 THEN [label |-> NA, count |-> 0]
        ELSE MonthResult(BestMonthLoop(map, <<>>, -1))

RECURSIVE LastBestMonthLoop(_, _, _)
LastBestMonthLoop(map, bestKey, bestVal) ==
    IF map = <<>> THEN [key |-> bestKey, val |-> bestVal]
    ELSE IF Head(map).v >= bestVal
         THEN LastBestMonthLoop(Tail(map), Head(map).k, Head(map).v)
    ELSE LastBestMonthLoop(Tail(map), bestKey, bestVal)

\* mutant: v >= bestVal for v > bestVal, the last of the tied months wins
calculateHighestCommittedMonth_LastTieWins(data) ==
    LET days == flattenDays(data)
        map == MonthMapLoop(days, <<>>)
        best == LastBestMonthLoop(map, <<>>, -1)
    IN  IF Len(map) = 0 THEN [label |-> NA, count |-> 0]
        ELSE MonthResult(best)

RECURSIVE DayCountMapLoop(_, _)
DayCountMapLoop(days, map) ==
    IF days = <<>> THEN map
    ELSE LET monthKey == Slice(Head(days).date, 0, 7)
         IN  DayCountMapLoop(Tail(days),
                 MapSet(map, monthKey, MapGetOr0(map, monthKey) + 1))

\* mutant: + 1 for + d.contributionCount, the days of a month are counted
calculateHighestCommittedMonth_CountsDays(data) ==
    LET days == flattenDays(data)
        map == DayCountMapLoop(days, <<>>)
        best == BestMonthLoop(map, <<>>, -1)
    IN  IF Len(map) = 0 THEN [label |-> NA, count |-> 0]
        ELSE MonthResult(best)

\* mutant: the map.size === 0 return is missing
calculateHighestCommittedMonth_NoEmptyCheck(data) ==
    MonthResult(BestMonthLoop(MonthMapLoop(flattenDays(data), <<>>), <<>>, -1))

calculateHighestCommittedMonth(data) ==
    LET days == flattenDays(data)
        map == MonthMapLoop(days, <<>>)
        best == BestMonthLoop(map, <<>>, -1)
    IN  IF Len(map) = 0 THEN [label |-> NA, count |-> 0]
        ELSE MonthResult(best)

\* ------------------------------------------- the engine on every calendar
\* position of a date of the enumerated calendars in SampleDates
DateIndex(date) == CHOOSE i \in 1..Len(SampleDates) : SampleDates[i] = date

LastIndex(days) == IF days = <<>> THEN 0 ELSE DateIndex(days[Len(days)].date)

\* the days the remote calendar can grow by: a later date, any count
NextDays(days) ==
    { Day(SampleDates[i], c) : i \in (LastIndex(days) + 1)..NumDates, c \in 0..MaxCount }

NoOut == [op |-> "none"]

\* no local constant of the handler is set yet
NoLocals == [name \in {} |-> 0]

\* the response object before the handler touches it
FreshRes == [sent |-> FALSE, status |-> 200, headers |-> {}, body |-> [kind |-> "none"]]

\* no request is being served
IdleHandler ==
    /\ pc = "idle"
    /\ req = [user |-> <<>>]
    /\ locals = NoLocals
    /\ res = FreshRes

EngineInit ==
    /\ rawData \in {NoUserData, UserData(<<>>)}
    /\ clock \in 1..Len(Instants)
    /\ out = NoOut
    /\ IdleHandler

\* the remote calendar of the user gains one day
AppendDay ==
    /\ ~rawData.user.null
    /\ \E day \in NextDays(flattenDays(rawData)) :
           rawData' = UserData(Append(flattenDays(rawData), day))
    /\ out' = NoOut
    /\ UNCHANGED <<clock, pc, req, locals, res>>

EvalCurrentStreak ==
    /\ out' = [op |-> "calculateCurrentStreak"]
               @@ CompletionOf(ReadWeeks(rawData, TRUE), calculateCurrentStreak(rawData, clock))
    /\ UNCHANGED <<rawData, clock, pc, req, locals, res>>

EvalMaxYearStreak ==
    /\ out' = [op |-> "calculateMaxYearStreak"]
               @@ CompletionOf(ReadWeeks(rawData, TRUE), calculateMaxYearStreak(rawData, clock))
    /\ UNCHANGED <<rawData, clock, pc, req, locals, res>>

EvalMostProductiveDay ==
    /\ out' = [op |-> "calculateMostProductiveDayFull"]
               @@ CompletionOf(ReadWeeks(rawData, TRUE), calculateMostProductiveDayFull(rawData))
    /\ UNCHANGED <<rawData, clock, pc, req, locals, res>>

EvalAverageWeekly ==
    /\ out' = [op |-> "calculateAverageWeeklyCurrentYear"]
               @@ CompletionOf(ReadWeeks(rawData, TRUE), calculateAverageWeeklyCurrentYear(rawData, clock))
    /\ UNCHANGED <<rawData, clock, pc, req, locals, res>>

EvalHighestCommittedMonth ==
    /\ out' = [op |-> "calculateHighestCommittedMonth"]
               @@ CompletionOf(ReadWeeks(rawData, TRUE), calculateHighestCommittedMonth(rawData))
    /\ UNCHANGED <<rawData, clock, pc, req, locals, res>>

EngineNext ==
    \/ AppendDay
    \/ EvalCurrentStreak
    \/ EvalMaxYearStreak
    \/ EvalMostProductiveDay
    \/ EvalAverageWeekly
    \/ EvalHighestCommittedMonth

EngineSpec == EngineInit /\ [][EngineNext]_vars

\* ------------------------------------- the engine of index.ts and index.js
JsEvalStreak ==
    /\ out' = [op |-> "js.calculateStreak"] @@ js_calculateStreak(rawData, clock)
    /\ UNCHANGED <<rawData, clock, pc, req, locals, res>>

JsEvalMaxYearStreak ==
    /\ out' = [op |-> "js.calculateMaxYearStreak"]
               @@ js_calculateMaxYearStreak(rawData, clock)
    /\ UNCHANGED <<rawData, clock, pc, req, locals, res>>

BothEnginesNext ==
    \/ EngineNext
    \/ JsEvalStreak
    \/ JsEvalMaxYearStreak

BothEnginesSpec == EngineInit /\ [][BothEnginesNext]_vars

\* --------------------------------------------- the engine on malformed days
\* dates that are no ISO dates: a month part of 13, no month part at all
MalformedDates == << ISO(2024, 13, 1), <<"x">> >>

IsSampleDate(date) == \E i \in 1..Len(SampleDates) : SampleDates[i] = date

\* every entry has one of the dates of the enumerated calendars
WellFormed(days) == \A i \in 1..Len(days) : IsSampleDate(days[i].date)

\* the remote calendar gains one day with an ISO date
AppendWellFormedDay ==
    /\ WellFormed(flattenDays(rawData))
    /\ Len(flattenDays(rawData)) < MaxReplyDays
    /\ AppendDay

\* the remote calendar gains one day whose date cannot be parsed
AppendMalformedDay ==
    /\ ~rawData.user.null
    /\ WellFormed(flattenDays(rawData))
    /\ \E i \in 1..Len(MalformedDates), c \in 0..MaxCount :
           rawData' = UserData(Append(flattenDays(rawData), Day(MalformedDates[i], c)))
    /\ out' = NoOut
    /\ UNCHANGED <<clock, pc, req, locals, res>>

MalformedNext ==
    \/ AppendWellFormedDay
    \/ AppendMalformedDay
    \/ EvalCurrentStreak
    \/ EvalMaxYearStreak
    \/ EvalMostProductiveDay
    \/ EvalAverageWeekly
    \/ EvalHighestCommittedMonth

MalformedSpec == EngineInit /\ [][MalformedNext]_vars

\* ------------------------------------- the engine on calendars of many days
\* The i-th date of a long calendar: the last two days of 2023, then the
\* first 28 days of the months of 2024 in turn.
LongDate(i) ==
    IF i <= 2 THEN ISO(2023, 12, 29 + i)
    ELSE ISO(2024, 1 + ((i - 3) \div 28), 1 + ((i - 3) % 28))

\* The counts a long calendar can grow by: any count for its first four
\* days, the count of the day before for every later day.
NextLongCounts(days) ==
    IF Len(days) < 4 THEN 0..MaxLongCount
    ELSE {days[Len(days)].contributionCount}

LongInit ==
    /\ rawData = UserData(<<>>)
    /\ clock \in {1, Len(Instants)}
    /\ out = NoOut
    /\ IdleHandler

\* the remote calendar gains its next day
AppendLongDay ==
    /\ Len(flattenDays(rawData)) < MaxLongDays
    /\ \E c \in NextLongCounts(flattenDays(rawData)) :
           rawData' = UserData(Append(flattenDays(rawData),
                                      Day(LongDate(Len(flattenDays(rawData)) + 1), c)))
    /\ out' = NoOut
    /\ UNCHANGED <<clock, pc, req, locals, res>>

LongNext ==
    \/ AppendLongDay
    \/ EvalAverageWeekly

LongSpec == LongInit /\ [][LongNext]_vars

\* ------------------------------------------------------------ the handler
RECURSIVE CalendarsUpTo(_)
\* the calendars of at most n days
CalendarsUpTo(n) ==
    IF n = 0 THEN {<<>>}
    ELSE LET shorter == CalendarsUpTo(n - 1)
         IN  shorter \cup
             UNION { { Append(days, day) : day \in NextDays(days) } :
                     days \in { c \in shorter : Len(c) = n - 1 } }

\* What axios.post resolves to: response.data, with errors or without, for
\* an unknown user (user: null) or a known one.
Replies ==
    { [errors |-> TRUE, data |-> NoUserData], [errors |-> FALSE, data |-> NoUserData] }
    \cup { [errors |-> FALSE, data |-> UserData(days)] :
           days \in CalendarsUpTo(MaxReplyDays) }

Text(message) == [kind |-> "text", message |-> message]

Svg(message) == [kind |-> "svg", message |-> message]

\* res.status(code).send(body)
StatusSend(r, code, body) == [r EXCEPT !.status = code, !.body = body, !.sent = TRUE]

\* res.setHeader(name, value)
SetHeader(r, name, value) ==
    [r EXCEPT !.headers = { h \in @ : h[1] # name } \cup {<<name, value>>}]

\* res.send(body)
Send(r, body) == [r EXCEPT !.body = body, !.sent = TRUE]

Init ==
    /\ pc = "start"
    /\ req \in { [user |-> <<>>], [user |-> <<"u">>] }
    /\ rawData = NoUserData
    /\ clock \in 1..Len(Instants)
    /\ locals = NoLocals
    /\ res = FreshRes
    /\ out = NoOut

\* time passes while the request is served
Tick ==
    /\ pc \notin {"start", "done"}
    /\ clock < Len(Instants)
    /\ clock' = clock + 1
    /\ UNCHANGED <<rawData, out, pc, req, locals, res>>

\* mutant: the 400 is sent but the handler does not return
CheckUser_NoReturn ==
    /\ pc = "start"
    /\ IF req.user = <<>>
       THEN res' = StatusSend(res, 400, Text("Missing user param"))
       ELSE res' = res
    /\ pc' = "post"
    /\ UNCHANGED <<rawData, clock, out, req, locals>>

\* if (!user) return res.status(400).send("Missing user param")
CheckUser ==
    /\ pc = "start"
    /\ IF req.user = <<>>
       THEN /\ res' = StatusSend(res, 400, Text("Missing user param"))
            /\ pc' = "done"
       ELSE /\ res' = res
            /\ pc' = "post"
    /\ UNCHANGED <<rawData, clock, out, req, locals>>

\* await axios.post(...) rejects: the catch block answers
PostRejects ==
    /\ pc = "post"
    /\ locals' = locals @@ ("err" :> "rejected")
    /\ res' = StatusSend(res, 500, Svg("Internal Server Error"))
    /\ pc' = "done"
    /\ UNCHANGED <<rawData, clock, out, req>>

\* await axios.post(...) resolves; the two "User not found" returns
PostResolves ==
    /\ pc = "post"
    /\ \E response \in Replies :
           /\ locals' = locals @@ ("response" :> response)
           /\ IF response.errors
              THEN /\ res' = StatusSend(res, 404, Svg("User not found"))
                   /\ pc' = "done"
                   /\ rawData' = rawData
              ELSE /\ rawData' = response.data
                   /\ IF response.data.user.null
                      THEN /\ res' = StatusSend(res, 404, Text("User not found"))
                           /\ pc' = "done"
                      ELSE /\ res' = res
                           /\ pc' = "currentStreak"
    /\ UNCHANGED <<clock, out, req>>

\* const currentStreak = calculateCurrentStreak(rawData)
CalcCurrentStreak ==
    /\ pc = "currentStreak"
    /\ locals' = locals @@ ("currentStreak" :> calculateCurrentStreak(rawData, clock))
    /\ pc' = "maxYearStreak"
    /\ UNCHANGED <<rawData, clock, out, req, res>>

\* const maxYearStreak = calculateMaxYearStreak(rawData)
CalcMaxYearStreak ==
    /\ pc = "maxYearStreak"
    /\ locals' = locals @@ ("maxYearStreak" :> calculateMaxYearStreak(rawData, clock))
    /\ pc' = "mostProductive"
    /\ UNCHANGED <<rawData, clock, out, req, res>>

\* const mostProductive = calculateMostProductiveDayFull(rawData)
CalcMostProductive ==
    /\ pc = "mostProductive"
    /\ locals' = locals @@ ("mostProductive" :> calculateMostProductiveDayFull(rawData))
    /\ pc' = "avgWeekly"
    /\ UNCHANGED <<rawData, clock, out, req, res>>

\* const avgWeekly = calculateAverageWeeklyCurrentYear(rawData)
CalcAvgWeekly ==
    /\ pc = "avgWeekly"
    /\ locals' = locals @@ ("avgWeekly" :> calculateAverageWeeklyCurrentYear(rawData, clock))
    /\ pc' = "send"
    /\ UNCHANGED <<rawData, clock, out, req, res>>

\* const total = ...; const svg = `...`; the two setHeader calls; res.send(svg)
SendBadge ==
    /\ pc = "send"
    /\ locals' = locals @@ ("total" :> rawData.user.totalContributions)
    /\ res' = Send(SetHeader(SetHeader(res, "Content-Type", "image/svg+xml"),
                             "Cache-Control", "s-maxage=3600, stale-while-revalidate"),
                   [kind |-> "svg",
                    message |-> "badge",
                    mostProductive |-> locals.mostProductive,
                    currentStreak |-> locals.currentStreak,
                    avgWeekly |-> locals.avgWeekly])
    /\ pc' = "done"
    /\ UNCHANGED <<rawData, clock, out, req>>

handler ==
    \/ CheckUser
    \/ PostRejects
    \/ PostResolves
    \/ CalcCurrentStreak
    \/ CalcMaxYearStreak
    \/ CalcMostProductive
    \/ CalcAvgWeekly
    \/ SendBadge

Next == handler \/ Tick

Spec == Init /\ [][Next]_vars

\* ------------------------------------------------ the handler of index.js
JsInit ==
    /\ pc = "js.start"
    /\ req \in { [user |-> <<>>], [user |-> <<"u">>] }
    /\ rawData = NoUserData
    /\ clock \in 1..Len(Instants)
    /\ locals = NoLocals
    /\ res = FreshRes
    /\ out = NoOut

\* time passes while the request is served
JsTick ==
    /\ pc \in {"js.post", "js.currentStreak", "js.maxStreakYear", "js.send"}
    /\ clock < Len(Instants)
    /\ clock' = clock + 1
    /\ UNCHANGED <<rawData, out, pc, req, locals, res>>

\* catch (error) { console.error(error); res.status(500).send("Internal Server Error") }
JsCatch(error) ==
    /\ locals' = locals @@ ("error" :> error)
    /\ res' = StatusSend(res, 500, Text("Internal Server Error"))
    /\ pc' = "js.done"

\* if (!user) return res.status(400).send('Missing "user" query parameter')
JsCheckUser ==
    /\ pc = "js.start"
    /\ IF req.user = <<>>
       THEN /\ res' = StatusSend(res, 400, Text("Missing \"user\" query parameter"))
            /\ pc' = "js.done"
       ELSE /\ res' = res
            /\ pc' = "js.post"
    /\ UNCHANGED <<rawData, clock, out, req, locals>>

\* await axios.post(...) rejects: the catch block answers
JsPostRejects ==
    /\ pc = "js.post"
    /\ JsCatch("rejected")
    /\ UNCHANGED <<rawData, clock, out, req>>

\* await axios.post(...) resolves; if (response.data.errors) return res.send(svg)
JsPostResolves ==
    /\ pc = "js.post"
    /\ \E response \in Replies :
           /\ locals' = locals @@ ("response" :> response)
           /\ IF response.errors
              THEN /\ res' = Send(res, Svg("User not found"))
                   /\ pc' = "js.done"
                   /\ rawData' = rawData
              ELSE /\ rawData' = response.data
                   /\ res' = res
                   /\ pc' = "js.currentStreak"
    /\ UNCHANGED <<clock, out, req>>

\* const currentStreak = calculateStreak(data)
JsCalcStreak ==
    /\ pc = "js.currentStreak"
    /\ LET c == js_calculateStreak(rawData, clock)
       IN  IF c.threw
           THEN JsCatch(c.val)
           ELSE /\ locals' = locals @@ ("currentStreak" :> c.val)
                /\ res' = res
                /\ pc' = "js.maxStreakYear"
    /\ UNCHANGED <<rawData, clock, out, req>>

\* const maxStreakYear = calculateMaxYearStreak(data)
JsCalcMaxYearStreak ==
    /\ pc = "js.maxStreakYear"
    /\ LET c == js_calculateMaxYearStreak(rawData, clock)
       IN  IF c.threw
           THEN JsCatch(c.val)
           ELSE /\ locals' = locals @@ ("maxStreakYear" :> c.val)
                /\ res' = res
                /\ pc' = "js.send"
    /\ UNCHANGED <<rawData, clock, out, req>>

\* const total = ...; const svg = `...`; the two setHeader calls; res.send(svg)
JsSendBadge ==
    /\ pc = "js.send"
    /\ locals' = locals @@ ("total" :> rawData.user.totalContributions)
    /\ res' = Send(SetHeader(SetHeader(res, "Content-Type", "image/svg+xml"),
                             "Cache-Control", "s-maxage=3600, stale-while-revalidate"),
                   [kind |-> "svg",
                    message |-> "badge",
                    currentStreak |-> locals.currentStreak,
                    maxStreakYear |-> locals.maxStreakYear])
    /\ pc' = "js.done"
    /\ UNCHANGED <<rawData, clock, out, req>>

js_handler ==
    \/ JsCheckUser
    \/ JsPostRejects
    \/ JsPostResolves
    \/ JsCalcStreak
    \/ JsCalcMaxYearStreak
    \/ JsSendBadge

JsNext == js_handler \/ JsTick

\* ------------------------------------------------------- both handlers
HandlersInit == Init \/ JsInit

HandlersNext == Next \/ JsNext

HandlersSpec == HandlersInit /\ [][HandlersNext]_vars

\* ===================================================== claims on the engine
Days == flattenDays(rawData)

Today == TodayISO(clock)

YearText == NumToStr(GetFullYear(clock))

Count(days, i) == days[i].contributionCount

\* the number of entries with count > 0 directly before and including entry k
RunEndingAt(days, k) ==
    CHOOSE r \in 0..k :
        /\ \A j \in (k - r + 1)..k : Count(days, j) > 0
        /\ r = k \/ Count(days, k - r) = 0

\* the last entry is dated today and has count 0
LastIsIdleToday(days, today) ==
    /\ Len(days) > 0
    /\ days[Len(days)].date = today
    /\ Count(days, Len(days)) = 0

\* C1: CurrentStreak is the length of the run of entries with count > 0 that
\* ends at the last entry of the calendar, or at the entry before it when the
\* last entry is dated today and has count 0; no other entry is skipped.
C1_StreakIsTrailingRun ==
    out.op = "calculateCurrentStreak" =>
        out.val = RunEndingAt(Days, IF LastIsIdleToday(Days, Today)
                                    THEN Len(Days) - 1 ELSE Len(Days))

\* C2: only a zero-count last entry dated today is skipped (neither counted
\* nor a break); every other zero-count entry, a zero-count entry dated today
\* that is not the last entry included, ends the backward walk.
C2_OnlyLastIdleTodaySkipped ==
    out.op = "calculateCurrentStreak" =>
        /\ \A k \in 1..Len(Days) :
               (Count(Days, k) = 0 /\ ~(k = Len(Days) /\ Days[k].date = Today))
                   => out.val <= Len(Days) - k
        /\ LastIsIdleToday(Days, Today)
               => out.val = RunEndingAt(Days, Len(Days) - 1)

\* C3: on the empty calendar, whatever the clock reads, CurrentStreak,
\* MaxStreakInYear and AverageWeeklyInYear are 0 and MostProductiveDay and
\* HighestCommittedMonth return "N/A" with count 0.
C3_EmptyCalendar ==
    Days = <<>> =>
        /\ out.op = "calculateCurrentStreak" => out.val = 0
        /\ out.op = "calculateMaxYearStreak" => out.val = 0
        /\ out.op = "calculateAverageWeeklyCurrentYear" => out.val = 0
        /\ out.op = "calculateMostProductiveDayFull"
               => out.val = [date |-> <<"N", "/", "A">>, count |-> 0]
        /\ out.op = "calculateHighestCommittedMonth"
               => out.val = [label |-> <<"N", "/", "A">>, count |-> 0]

C3_Witness ==
    /\ Days = <<>>
    /\ rawData.user.null
    /\ out.op = "calculateHighestCommittedMonth"
    /\ out.val.count = 0

\* the year of an entry is the first four characters of its date
InYear(day, yearText) == SubSeq(day.date, 1, 4) = yearText

YearEntries(days, yearText) ==
    LET Keep(d) == InYear(d, yearText) IN SelectSeq(days, Keep)

HasRun(seq, r) ==
    \E i \in 1..(Len(seq) - r + 1) : \A j \in i..(i + r - 1) : Count(seq, j) > 0

\* the length of the longest run of adjacent entries with count > 0
LongestRun(seq) ==
    CHOOSE r \in 0..Len(seq) : HasRun(seq, r) /\ ~HasRun(seq, r + 1)

RemoveAt(days, i) == SubSeq(days, 1, i - 1) \o SubSeq(days, i + 1, Len(days))

SetCount(days, i, c) == [days EXCEPT ![i].contributionCount = c]

\* C4: MaxStreakInYear is the longest run of adjacent entries with count > 0
\* among the entries of the year, and removing or changing an entry of
\* another year leaves it unchanged.
C4_MaxStreakIsLongestRunOfYear ==
    out.op = "calculateMaxYearStreak" =>
        /\ out.val = LongestRun(YearEntries(Days, YearText))
        /\ \A i \in 1..Len(Days) :
               ~InYear(Days[i], YearText) =>
                   /\ calculateMaxYearStreak(UserData(RemoveAt(Days, i)), clock) = out.val
                   /\ \A c \in 0..MaxCount :
                          calculateMaxYearStreak(UserData(SetCount(Days, i, c)), clock)
                              = out.val

\* an entry of another year with count > 0 stands next to a run of the year
C4_Witness ==
    /\ out.op = "calculateMaxYearStreak"
    /\ out.val = 1
    /\ \E i \in 1..(Len(Days) - 1) :
           /\ ~InYear(Days[i], YearText) /\ Count(Days, i) > 0
           /\ InYear(Days[i + 1], YearText) /\ Count(Days, i + 1) > 0

\* C5: on a non-empty calendar MostProductiveDay returns the first of the
\* entries of the whole calendar whose count no other entry exceeds.
C5_MostProductiveIsFirstMaximum ==
    (out.op = "calculateMostProductiveDayFull" /\ Len(Days) > 0) =>
        \E k \in 1..Len(Days) :
            /\ out.val = [date |-> Days[k].date, count |-> Count(Days, k)]
            /\ \A j \in 1..Len(Days) : Count(Days, j) <= Count(Days, k)
            /\ \A j \in 1..(k - 1) : Count(Days, j) < Count(Days, k)

\* two entries share the greatest count, and the first is of another year
C5_Witness ==
    /\ out.op = "calculateMostProductiveDayFull"
    /\ \E k \in 1..Len(Days) : \E j \in (k + 1)..Len(Days) :
           /\ out.val.date = Days[k].date
           /\ Count(Days, j) = Count(Days, k)
           /\ Count(Days, k) > 0
           /\ ~InYear(Days[k], YearText)

MonthKeyOf(day) == SubSeq(day.date, 1, 7)

MonthKeys(days) == { MonthKeyOf(days[i]) : i \in 1..Len(days) }

\* the sum of the counts of exactly the entries of a month
MonthSum(days, key) ==
    LET Keep(d) == MonthKeyOf(d) = key IN SumCounts(SelectSeq(days, Keep))

\* "Jan 2024" for the key "2024-01"
LabelOfKey(key) ==
    LET m == CHOOSE m \in 1..12 : Pad2(m) = SubSeq(key, 6, 7)
    IN  monthNames[m] \o <<" ">> \o SubSeq(key, 1, 4)

\* C7: on a non-empty calendar HighestCommittedMonth returns the greatest of
\* the per-month sums of counts, with the label (month abbreviation, year) of
\* a month whose entries sum to exactly that count.
C7_HighestMonthIsGreatestSum ==
    (out.op = "calculateHighestCommittedMonth" /\ Len(Days) > 0) =>
        \E key \in MonthKeys(Days) :
            /\ out.val.count = MonthSum(Days, key)
            /\ \A other \in MonthKeys(Days) : MonthSum(Days, other) <= out.val.count
            /\ out.val.label = LabelOfKey(key)

\* January 2024 wins with two entries, against a month of another year
C7_Witness ==
    /\ out.op = "calculateHighestCommittedMonth"
    /\ out.val.label = <<"J", "a", "n", " ", "2", "0", "2", "4">>
    /\ out.val.count = 2 * MaxCount
    /\ Cardinality(MonthKeys(Days)) >= 3

Front(days) == SubSeq(days, 1, Len(days) - 1)

C10_AppendIdleDay ==
    (/\ out.op = "calculateCurrentStreak"
     /\ Len(Days) >= 1
     /\ Count(Days, Len(Days)) = 0)
        => IF Days[Len(Days)].date = Today
           THEN out.val = calculateCurrentStreak(UserData(Front(Days)), clock)
           ELSE out.val = 0

C10_Witness ==
    /\ out.op = "calculateCurrentStreak"
    /\ LastIsIdleToday(Days, Today)
    /\ out.val = 2

\* C6: with at least one entry in the year, AverageWeeklyInYear is the sum of
\* the year's counts divided by w = max(1, ceil(n / 7)) for the n entries of
\* the year, rounded half-up to one decimal (out.val is the result in tenths);
\* ten entries of count 5 give 25.0.
C6_AverageIsSumPerWeekRoundedHalfUp ==
    (/\ out.op = "calculateAverageWeeklyCurrentYear"
     /\ Len(YearEntries(Days, YearText)) >= 1)
        => LET year == YearEntries(Days, YearText)
               n == Len(year)
               sum == SumCounts(year)
           IN  /\ \E w \in 1..n :
                      /\ n <= 7 * w
                      /\ 7 * (w - 1) < n
                      /\ 2 * w * out.val - w <= 20 * sum
                      /\ 20 * sum < 2 * w * out.val + w
               /\ (n = 10 /\ \A i \in 1..n : Count(year, i) = 5) => out.val = 250

\* 22 entries of the year (4 weeks) summing to 1: 0.25 is rounded up to 0.3
C6_Witness ==
    /\ out.op = "calculateAverageWeeklyCurrentYear"
    /\ Len(YearEntries(Days, YearText)) = 22
    /\ Len(Days) > 22
    /\ SumCounts(YearEntries(Days, YearText)) = 1
    /\ out.val = 3

\* the last n entries of a calendar (all of them when it has fewer)
LastEntries(days, n) ==
    IF Len(days) <= n THEN days ELSE SubSeq(days, Len(days) - n + 1, Len(days))

\* round(100 * entries with count > 0 / entries considered), 0 when none
ConsistencyOf(days) ==
    LET active == Cardinality({ i \in 1..Len(days) : Count(days, i) > 0 })
    IN  IF Len(days) = 0 THEN 0
        ELSE (2 * 100 * active + Len(days)) \div (2 * Len(days))

\* C8: the statistics computed for a successful response include
\* consistency90, round(100 * entries with count > 0 / entries considered)
\* over the last 90 entries of the calendar, an integer in [0,100].
C8_Consistency90Provided ==
    (pc = "done" /\ res.status = 200) =>
        /\ "consistency90" \in DOMAIN locals
        /\ locals.consistency90 = ConsistencyOf(LastEntries(Days, 90))
        /\ locals.consistency90 \in 0..100

\* C11: MaxStreakInYear is at least the running count of consecutive entries
\* with count > 0 after every prefix of the year's entries, and a calendar
\* whose last entry is of the year and has count > 0 has a MaxStreakInYear no
\* smaller than that of the calendar without this entry.
C11_MaxStreakBoundsEveryRun ==
    out.op = "calculateMaxYearStreak" =>
        /\ \A k \in 0..Len(YearEntries(Days, YearText)) :
               out.val >= RunEndingAt(YearEntries(Days, YearText), k)
        /\ (/\ Len(Days) >= 1
            /\ InYear(Days[Len(Days)], YearText)
            /\ Count(Days, Len(Days)) > 0)
               => out.val >= calculateMaxYearStreak(UserData(Front(Days)), clock)

\* the running count is back at 0 after a run of two that the maximum keeps
C11_Witness ==
    /\ out.op = "calculateMaxYearStreak"
    /\ out.val = 2
    /\ Len(YearEntries(Days, YearText)) = 3
    /\ RunEndingAt(YearEntries(Days, YearText), 3) = 0

\* the calendar with the count of every entry of the year doubled
DoubledInYear(days, yearText) ==
    [i \in 1..Len(days) |->
        IF InYear(days[i], yearText)
        THEN Day(days[i].date, 2 * days[i].contributionCount)
        ELSE days[i]]

\* C12: doubling the count of every entry of the year gives an
\* AverageWeeklyInYear within 0.1 (one tenth) of twice the original one.
C12_AverageScalesWithCounts ==
    out.op = "calculateAverageWeeklyCurrentYear" =>
        LET doubled == calculateAverageWeeklyCurrentYear(
                           UserData(DoubledInYear(Days, YearText)), clock)
        IN  /\ doubled - 2 * out.val <= 1
            /\ 2 * out.val - doubled <= 1

\* the rounding shows: the doubled average is not twice the original one
C12_Witness ==
    /\ out.op = "calculateAverageWeeklyCurrentYear"
    /\ out.val > 0
    /\ Len(YearEntries(Days, YearText)) > 7
    /\ calculateAverageWeeklyCurrentYear(UserData(DoubledInYear(Days, YearText)), clock)
           = 2 * out.val + 1

\* C13: MostProductiveDay returns the date "N/A" for the empty calendar only;
\* on a non-empty calendar whose entries all have count 0 it returns the date
\* of the first entry with count 0.
C13_NoneOnlyForEmptyCalendar ==
    out.op = "calculateMostProductiveDayFull" =>
        /\ out.val.date = <<"N", "/", "A">> <=> Days = <<>>
        /\ (Len(Days) > 0 /\ \A i \in 1..Len(Days) : Count(Days, i) = 0)
               => out.val = [date |-> Days[1].date, count |-> 0]

C13_Witness ==
    /\ out.op = "calculateMostProductiveDayFull"
    /\ Len(Days) >= 2
    /\ \A i \in 1..Len(Days) : Count(Days, i) = 0
    /\ out.val.date = Days[1].date

\* C14: on every well-formed calendar, the empty one of an unknown user
\* included, each engine operation returns a value and none throws.
C14_EngineNeverThrows ==
    out.op # "none" => ~out.threw

\* C15: on a calendar with an entry whose date cannot be parsed the engine
\* signals InvalidInput instead of returning statistics.
C15_MalformedInputIsSignalled ==
    (out.op # "none" /\ ~WellFormed(Days)) => (out.threw /\ out.val = "InvalidInput")

\* =================================================== claims on the handlers
Started == pc \in {"start", "js.start"}

Done == pc \in {"done", "js.done"}

\* the remote source has reported the user as unknown
UserUnknown ==
    /\ "response" \in DOMAIN locals
    /\ locals.response.errors \/ locals.response.data.user.null

\* the catch block of the handler has run
Failed == "err" \in DOMAIN locals \/ "error" \in DOMAIN locals

\* C16: when the reply carries errors or a null user, the handler answers 404
\* with an SVG body.
C16_UnknownUserIsNotFoundSvg ==
    UserUnknown => (Done /\ res.sent /\ res.status = 404 /\ res.body.kind = "svg")

\* C17: when the fetch or a later step fails, the handler answers 500 with an
\* SVG body that carries an error message, never with plain text.
C17_FailureIsServerErrorSvg ==
    Failed => (Done /\ res.sent /\ res.status = 500 /\ res.body.kind = "svg")

\* C18: a request without user is answered 400 with a text message; the
\* fetch is never started for it and no statistic is computed.
C18_MissingUserIsClientError ==
    req.user = <<>> =>
        /\ Started \/ Done
        /\ locals = NoLocals
        /\ rawData = NoUserData
        /\ Done => (res.sent /\ res.status = 400 /\ res.body.kind = "text")
        /\ Started => ~res.sent

C18_Witness ==
    /\ req.user = <<>>
    /\ Done
    /\ res.status = 400
    /\ res.body.kind = "text"

\* the content type and the cache directive of the badge
BadgeHeaders ==
    { <<"Content-Type", "image/svg+xml">>,
      <<"Cache-Control", "s-maxage=3600, stale-while-revalidate">> }

\* C19: a response that is sent carries the image content type and the cache
\* directive if it is successful (status 200), and neither of them otherwise.
C19_OnlySuccessIsCached ==
    res.sent => (IF res.status = 200 THEN res.headers = BadgeHeaders
                 ELSE res.headers = {})

\* the instants whose local year is the year of their UTC date: one current
\* date gives both today and the year
OneDateInstants ==
    { t \in 1..Len(Instants) : NumToStr(GetFullYear(t)) = SubSeq(TodayISO(t), 1, 4) }

\* C20: the statistics of one badge are those of the calendar at one current
\* date: the year that filters the entries for MaxStreakInYear and
\* AverageWeeklyInYear is the year of the date CurrentStreak takes as today.
C20_OneCurrentDate ==
    (pc = "done" /\ res.status = 200) =>
        \E t \in OneDateInstants :
            /\ locals.currentStreak = calculateCurrentStreak(rawData, t)
            /\ locals.maxYearStreak = calculateMaxYearStreak(rawData, t)
            /\ locals.avgWeekly = calculateAverageWeeklyCurrentYear(rawData, t)

\* ============================================= claims on months and streaks
\* the index of the first entry of a month, where its bucket is created
FirstIndexOf(days, key) ==
    CHOOSE i \in 1..Len(days) :
        /\ MonthKeyOf(days[i]) = key
        /\ \A j \in 1..(i - 1) : MonthKeyOf(days[j]) # key

\* the months whose sum is the greatest of the calendar
TiedMonths(days) ==
    { key \in MonthKeys(days) :
        \A other \in MonthKeys(days) : MonthSum(days, other) <= MonthSum(days, key) }

\* C21: of the months that share the greatest sum HighestCommittedMonth
\* returns the one whose bucket was created first; on a calendar in ascending
\* date order that is the earliest of the tied months, the same on every
\* evaluation of the calendar.
C21_FirstTiedMonthWins ==
    (out.op = "calculateHighestCommittedMonth" /\ Len(Days) > 0) =>
        \E key \in TiedMonths(Days) :
            /\ out.val.label = LabelOfKey(key)
            /\ \A other \in TiedMonths(Days) \ {key} :
                   /\ FirstIndexOf(Days, key) < FirstIndexOf(Days, other)
                   /\ DateIndex(Days[FirstIndexOf(Days, key)].date)
                          < DateIndex(Days[FirstIndexOf(Days, other)].date)
            /\ out.val = calculateHighestCommittedMonth(rawData)

\* three months share a greatest sum above 0, the first of them is returned
C21_Witness ==
    /\ out.op = "calculateHighestCommittedMonth"
    /\ Cardinality(TiedMonths(Days)) = 3
    /\ out.val.count > 0
    /\ out.val.label = LabelOfKey(MonthKeyOf(Days[1]))

\* C22: on a non-empty calendar the count of HighestCommittedMonth is at
\* least the count of MostProductiveDay and at most the sum of all counts.
C22_MonthCountBetweenDayAndTotal ==
    (out.op = "calculateHighestCommittedMonth" /\ Len(Days) > 0) =>
        /\ out.val.count >= calculateMostProductiveDayFull(rawData).count
        /\ out.val.count <= SumCounts(Days)

\* the month's count lies strictly between the best day and the total
C22_Witness ==
    /\ out.op = "calculateHighestCommittedMonth"
    /\ out.val.count > calculateMostProductiveDayFull(rawData).count
    /\ out.val.count < SumCounts(Days)
    /\ calculateMostProductiveDayFull(rawData).count > 0

\* the year of today: the current year when one date gives both
YearOfToday == SubSeq(Today, 1, 4)

\* no entry of the calendar is dated after today
NoneAfterToday(days) ==
    \A i \in 1..Len(days) : DateIndex(days[i].date) <= DateIndex(Today)

\* the entries the backward walk counts: those with count > 0 after the last
\* entry that ends the walk
RunStart(days) ==
    CHOOSE k \in 0..Len(days) :
        /\ \A j \in (k + 1)..Len(days) :
               Count(days, j) > 0 \/ (days[j].date = Today /\ Count(days, j) = 0)
        /\ k = 0 \/ ~(Count(days, k) > 0 \/ (days[k].date = Today /\ Count(days, k) = 0))

\* the current run holds a counted entry of a year before the current one
RunReachesEarlierYear(days) ==
    \E j \in (RunStart(days) + 1)..Len(days) :
        /\ Count(days, j) > 0
        /\ ~InYear(days[j], YearOfToday)
        /\ DateIndex(days[j].date) < DateIndex(Today)

\* C23: on a calendar with no entry after today whose entries are all of the
\* current year, CurrentStreak is at most MaxStreakInYear; where CurrentStreak
\* is greater, the current run reaches back into an earlier year.
C23_StreakWithinYearMaximum ==
    NoneAfterToday(Days) =>
        LET streak == calculateCurrentStreak(rawData, clock)
            maxYear == calculateMaxYearStreak(rawData, clock)
        IN  /\ (\A i \in 1..Len(Days) : InYear(Days[i], YearOfToday)) => streak <= maxYear
            /\ streak > maxYear => RunReachesEarlierYear(Days)

====
